---- MODULE Spec2Model ----
(***************************************************************************)
(* The crop workflow of the daisler front end (src/app/page.tsx): the      *)
(* crop geometry resolver computeCropPixelsFromSelection, the view state   *)
(* it reads (natural size, container, zoom, zoom origin, selection) and    *)
(* the handlers that send the image to the backend.                        *)
(*                                                                         *)
(* JavaScript numbers are IEEE 754 binary64 values.  The resolver floors   *)
(* products of quotients, so its results depend on the rounding of every   *)
(* operation; the arithmetic below is therefore binary64 arithmetic,       *)
(* rounded to nearest, ties to even, on 53-bit significands kept as        *)
(* multi-limb naturals (TLC's integers are 32-bit).                        *)
(***************************************************************************)
EXTENDS Integers, Sequences, FiniteSets, TLC

\* ---- natural numbers of any size: little-endian limbs in base 2^14 ----
LimbBits == 14

RECURSIVE Pow2(_)
Pow2(n) == IF n = 0 THEN 1 ELSE 2 * Pow2(n - 1)

Base == 16384

Limb(a, i) == IF i >= 1 /\ i <= Len(a) THEN a[i] ELSE 0

RECURSIVE Trim(_)
Trim(a) ==
  IF a = <<>> THEN a
  ELSE IF a[Len(a)] = 0 THEN Trim(SubSeq(a, 1, Len(a) - 1)) ELSE a

RECURSIVE Carry(_, _)
Carry(a, c) ==
  IF a = <<>> THEN (IF c = 0 THEN <<>> ELSE <<c % Base>> \o Carry(<<>>, c \div Base))
  ELSE LET t == a[1] + c IN <<t % Base>> \o Carry(Tail(a), t \div Base)

BigFromInt(n) == Trim(Carry(<<n>>, 0))

MaxI(a, b) == IF a >= b THEN a ELSE b
MinI(a, b) == IF a <= b THEN a ELSE b

BigAdd(a, b) ==
  Trim(Carry([i \in 1..MaxI(Len(a), Len(b)) |-> Limb(a, i) + Limb(b, i)], 0))

RECURSIVE Borrow(_, _, _, _)
Borrow(a, b, i, br) ==
  IF i > Len(a) THEN <<>>
  ELSE LET t == a[i] - Limb(b, i) - br
       IN IF t < 0 THEN <<t + Base>> \o Borrow(a, b, i + 1, 1)
                   ELSE <<t>> \o Borrow(a, b, i + 1, 0)

\* a - b for a >= b
BigSub(a, b) == Trim(Borrow(a, b, 1, 0))

RECURSIVE CmpFrom(_, _, _)
CmpFrom(a, b, i) ==
  IF i = 0 THEN 0
  ELSE IF a[i] > b[i] THEN 1
  ELSE IF a[i] < b[i] THEN -1
  ELSE CmpFrom(a, b, i - 1)

\* -1, 0, 1 as a < b, a = b, a > b (both trimmed)
BigCmp(a, b) ==
  IF Len(a) > Len(b) THEN 1
  ELSE IF Len(a) < Len(b) THEN -1
  ELSE CmpFrom(a, b, Len(a))

RECURSIVE ColSum(_, _, _, _)
ColSum(a, b, k, i) ==
  IF i > Len(a) THEN 0
  ELSE Limb(a, i) * Limb(b, k + 1 - i) + ColSum(a, b, k, i + 1)

BigMul(a, b) ==
  IF a = <<>> \/ b = <<>> THEN <<>>
  ELSE Trim(Carry([k \in 1..(Len(a) + Len(b)) |-> ColSum(a, b, k, 1)], 0))

RECURSIVE IntBitLen(_)
IntBitLen(n) == IF n = 0 THEN 0 ELSE 1 + IntBitLen(n \div 2)

BitLen(a) == IF a = <<>> THEN 0 ELSE (Len(a) - 1) * LimbBits + IntBitLen(a[Len(a)])

ShiftLeft(a, k) ==
  IF a = <<>> THEN a
  ELSE LET q == k \div LimbBits
           r == k % LimbBits
           p == Pow2(r)
       IN [i \in 1..q |-> 0] \o Trim(Carry([i \in 1..Len(a) |-> a[i] * p], 0))

\* floor(a / 2^k)
ShiftRight(a, k) ==
  LET q == k \div LimbBits
      r == k % LimbBits
      p == Pow2(r)
      hi == Pow2(LimbBits - r)
  IN IF q >= Len(a) THEN <<>>
     ELSE Trim([i \in 1..(Len(a) - q) |->
                  (a[i + q] \div p) + (Limb(a, i + q + 1) % p) * hi])

\* the low k bits of a are all zero
LowBitsZero(a, k) ==
  LET q == k \div LimbBits
      r == k % LimbBits
  IN /\ \A i \in 1..MinI(q, Len(a)) : a[i] = 0
     /\ Limb(a, q + 1) % Pow2(r) = 0

Bit(a, k) == (Limb(a, (k \div LimbBits) + 1) \div Pow2(k % LimbBits)) % 2

\* value of a small natural
RECURSIVE BigToInt(_)
BigToInt(a) == IF a = <<>> THEN 0 ELSE a[1] + Base * BigToInt(Tail(a))

\* ---- IEEE 754 binary64 values away from overflow and underflow ----
\* k = "fin": (-1)^neg * m * 2^e, m = <<>> for zero, else 2^52 <= m < 2^53
MantBits == 53
Zero == [k |-> "fin", neg |-> FALSE, m |-> <<>>, e |-> 0]
NaN == [k |-> "nan"]
Inf(neg) == [k |-> "inf", neg |-> neg]
IsZero(x) == x.k = "fin" /\ x.m = <<>>
IsNaN(x) == x.k = "nan"

\* round (m + s) * 2^e, 0 <= s < 1 and sticky = (s > 0), to nearest, ties to even
Round(neg, m, e, sticky) ==
  IF m = <<>> THEN Zero
  ELSE LET L == BitLen(m) IN
    IF L <= MantBits
    THEN [k |-> "fin", neg |-> neg, m |-> ShiftLeft(m, MantBits - L), e |-> e - (MantBits - L)]
    ELSE LET d == L - MantBits
             q == ShiftRight(m, d)
             guard == Bit(m, d - 1) = 1
             rest == sticky \/ ~LowBitsZero(m, d - 1)
             up == guard /\ (rest \/ Bit(q, 0) = 1)
             q1 == IF up THEN BigAdd(q, <<1>>) ELSE q
         IN IF BitLen(q1) > MantBits
            THEN [k |-> "fin", neg |-> neg, m |-> ShiftRight(q1, 1), e |-> e + d + 1]
            ELSE [k |-> "fin", neg |-> neg, m |-> q1, e |-> e + d]

FromInt(n) ==
  IF n >= 0 THEN Round(FALSE, BigFromInt(n), 0, FALSE)
  ELSE Round(TRUE, BigFromInt(-n), 0, FALSE)

Neg(x) ==
  IF x.k = "nan" THEN x
  ELSE IF x.k = "inf" THEN Inf(~x.neg)
  ELSE IF x.m = <<>> THEN x
  ELSE [x EXCEPT !.neg = ~x.neg]

\* -1, 0, 1 for finite x, y
CmpFin(x, y) ==
  IF x.m = <<>> /\ y.m = <<>> THEN 0
  ELSE IF x.m = <<>> THEN (IF y.neg THEN 1 ELSE -1)
  ELSE IF y.m = <<>> THEN (IF x.neg THEN -1 ELSE 1)
  ELSE IF x.neg /= y.neg THEN (IF x.neg THEN -1 ELSE 1)
  ELSE LET mag == IF x.e > y.e THEN 1
                  ELSE IF x.e < y.e THEN -1
                  ELSE BigCmp(x.m, y.m)
       IN IF x.neg THEN 0 - mag ELSE mag

\* x < y (false when either is NaN)
Lt(x, y) ==
  IF x.k = "nan" \/ y.k = "nan" THEN FALSE
  ELSE IF x.k = "inf" THEN x.neg /\ ~(y.k = "inf" /\ y.neg)
  ELSE IF y.k = "inf" THEN ~y.neg
  ELSE CmpFin(x, y) < 0

FMin(x, y) ==
  IF x.k = "nan" \/ y.k = "nan" THEN NaN
  ELSE IF Lt(y, x) THEN y ELSE x

FMax(x, y) ==
  IF x.k = "nan" \/ y.k = "nan" THEN NaN
  ELSE IF Lt(x, y) THEN y ELSE x

AddFin(x, y) ==
  IF x.m = <<>> THEN y
  ELSE IF y.m = <<>> THEN x
  ELSE LET e == MinI(x.e, y.e)
           a == ShiftLeft(x.m, x.e - e)
           b == ShiftLeft(y.m, y.e - e)
       IN IF x.neg = y.neg THEN Round(x.neg, BigAdd(a, b), e, FALSE)
          ELSE LET c == BigCmp(a, b)
               IN IF c = 0 THEN Zero
                  ELSE IF c > 0 THEN Round(x.neg, BigSub(a, b), e, FALSE)
                  ELSE Round(y.neg, BigSub(b, a), e, FALSE)

Add(x, y) ==
  IF x.k = "nan" \/ y.k = "nan" THEN NaN
  ELSE IF x.k = "inf" THEN (IF y.k = "inf" /\ y.neg /= x.neg THEN NaN ELSE x)
  ELSE IF y.k = "inf" THEN y
  ELSE AddFin(x, y)

Sub(x, y) == Add(x, Neg(y))

Mul(x, y) ==
  IF x.k = "nan" \/ y.k = "nan" THEN NaN
  ELSE IF x.k = "inf" \/ y.k = "inf"
       THEN (IF IsZero(x) \/ IsZero(y) THEN NaN ELSE Inf(x.neg /= y.neg))
  ELSE IF x.m = <<>> \/ y.m = <<>> THEN Zero
  ELSE Round(x.neg /= y.neg, BigMul(x.m, y.m), x.e + y.e, FALSE)

\* n further quotient bits of r / d, r < d: <<quotient, remainder>>
RECURSIVE DivBits(_, _, _, _)
DivBits(r, d, n, q) ==
  IF n = 0 THEN <<q, r>>
  ELSE LET r2 == BigAdd(r, r)
       IN IF BigCmp(r2, d) >= 0 THEN DivBits(BigSub(r2, d), d, n - 1, 2 * q + 1)
          ELSE DivBits(r2, d, n - 1, 2 * q)

\* floor(a * 2^55 / b) and whether a remainder is left, for 53-bit a and b
DivMant(a, b) ==
  LET ge == BigCmp(a, b) >= 0
      r0 == IF ge THEN BigSub(a, b) ELSE a
      s1 == DivBits(r0, b, 13, IF ge THEN 1 ELSE 0)
      s2 == DivBits(s1[2], b, 14, 0)
      s3 == DivBits(s2[2], b, 14, 0)
      s4 == DivBits(s3[2], b, 14, 0)
  IN [q |-> Trim(<<s4[1], s3[1], s2[1], s1[1]>>), sticky |-> s4[2] /= <<>>]

Div(x, y) ==
  IF x.k = "nan" \/ y.k = "nan" THEN NaN
  ELSE IF x.k = "inf" THEN (IF y.k = "inf" THEN NaN ELSE Inf(x.neg /= y.neg))
  ELSE IF y.k = "inf" THEN Zero
  ELSE IF y.m = <<>> THEN (IF x.m = <<>> THEN NaN ELSE Inf(x.neg))
  ELSE IF x.m = <<>> THEN Zero
  ELSE LET d == DivMant(x.m, y.m)
       IN Round(x.neg /= y.neg, d.q, x.e - y.e - 55, d.sticky)

\* Math.floor of a finite value, as an integer
Floor(x) ==
  IF x.m = <<>> THEN 0
  ELSE IF x.e >= 0 THEN
         (IF x.neg THEN 0 - BigToInt(ShiftLeft(x.m, x.e)) ELSE BigToInt(ShiftLeft(x.m, x.e)))
  ELSE LET q == BigToInt(ShiftRight(x.m, 0 - x.e))
           exact == LowBitsZero(x.m, 0 - x.e)
       IN IF x.neg THEN (IF exact THEN 0 - q ELSE 0 - q - 1) ELSE q

\* ---- the view state of the page (src/app/page.tsx, useState hooks) ----
\* file, imageSrc, naturalSize, selection, cropPixels, containerSize and error
\* are Null or a record; zoom is kept in thousandths (every zoom the page
\* stores is 1 or Number(x.toFixed(3))); originX, originY and the selection's
\* fields are binary64 numbers; containerSize is the container element's
\* clientWidth and clientHeight (Null while it is not rendered).
\* cropPixels is what the resolver returned last; pixelRect is a rectangle
\* of image pixels the user means to select; request is the multipart POST
\* in flight; wheelEvents counts the wheel events handled.
VARIABLES file, imageSrc, naturalSize, containerSize, zoom, originX, originY,
          selection, cropPixels, pixelRect, error, request, wheelEvents, pc,
          cropMode, selecting, dragging, startPoint, fixedWidth, fixedHeight,
          toSendPreviewUrl, processedUrl, processedType, transformOrigin,
          tasks, fileSelections, lastEvent, events,
          processingForPrint, previewUrl, result, processing,
          resizeWidth, resizeHeight, resizeDpi, globalUnit, quality

vars == <<file, imageSrc, naturalSize, containerSize, zoom, originX, originY,
          selection, cropPixels, pixelRect, error, request, wheelEvents, pc,
          cropMode, selecting, dragging, startPoint, fixedWidth, fixedHeight,
          toSendPreviewUrl, processedUrl, processedType, transformOrigin,
          tasks, fileSelections, lastEvent, events,
          processingForPrint, previewUrl, result, processing,
          resizeWidth, resizeHeight, resizeDpi, globalUnit, quality>>

\* the page's remaining state: the crop mode and its drag state, the fixed
\* size fields (as parseInt reads them), the preview and the processed
\* output, the legacy page's transform-origin, the asynchronous handlers
\* still running, the number of file selections made, the handler that a
\* user event ran last and the number of handler runs of the page explored so far
dragVars == <<cropMode, selecting, dragging, startPoint, fixedWidth, fixedHeight>>
outputVars == <<toSendPreviewUrl, processedUrl, processedType>>
pageVars == <<dragVars, outputVars, transformOrigin, tasks, fileSelections, events>>

\* processingForPrint of the print page, and previewUrl, result and
\* processing of the Print Production Studio page (src/app/page_new.tsx),
\* whose file and error are kept in file and error; an empty string is
\* written Null
printVars == <<processingForPrint, previewUrl, result, processing>>

\* the print size fields of the print panel, the unit they are read in and
\* what the DPI quality banner shows: resizeWidth and resizeHeight are Null
\* for the empty string or a decimal with one fractional digit, kept as its
\* number of tenths; resizeDpi is the integer parseInt reads; quality is
\* Null while there is no banner
resizeVars == <<resizeWidth, resizeHeight, resizeDpi, globalUnit, quality>>

imageVars == <<file, imageSrc, naturalSize, containerSize>>
viewVars == <<zoom, originX, originY, wheelEvents>>
sendVars == <<error, request>>

Null == [null |-> TRUE]

\* the useState defaults of the state the resolver does not read
PageDefaults ==
  /\ cropMode = "free"
  /\ selecting = FALSE
  /\ dragging = FALSE
  /\ startPoint = Null
  /\ fixedWidth = 100
  /\ fixedHeight = 100
  /\ toSendPreviewUrl = Null
  /\ processedUrl = Null
  /\ processedType = Null
  /\ transformOrigin = [keyword |-> "center center"]
  /\ tasks = {}
  /\ fileSelections = 0
  /\ lastEvent = "none"
  /\ events = 0
  /\ processingForPrint = FALSE
  /\ previewUrl = Null
  /\ result = Null
  /\ processing = FALSE
  /\ resizeWidth = Null
  /\ resizeHeight = Null
  /\ resizeDpi = 300
  /\ globalUnit = "mm"
  /\ quality = Null

F0 == Zero
F1 == FromInt(1)
F2 == FromInt(2)

\* the zoom state as a number: the binary64 nearest to zoom / 1000
ZoomNumber(z) == Div(FromInt(z), FromInt(1000))

Rect(x, y, w, h) == [x |-> x, y |-> y, width |-> w, height |-> h]

\* a selection rectangle with integer container coordinates
SelectionAt(x, y, w, h) == Rect(FromInt(x), FromInt(y), FromInt(w), FromInt(h))

Size(w, h) == [width |-> w, height |-> h]

\* ---- the crop geometry resolver ----
MinSelection == 8

isValidSelection(sel) ==
  /\ sel /= Null
  /\ ~Lt(sel.width, FromInt(MinSelection))
  /\ ~Lt(sel.height, FromInt(MinSelection))
  /\ ~IsNaN(sel.width) /\ ~IsNaN(sel.height)

\* variant of BaseScale: the image covers the container
BaseScaleCover(cw, ch, iw, ih) == FMax(Div(cw, iw), Div(ch, ih))

\* Math.min(cw / iw, ch / ih) || 1
BaseScale(cw, ch, iw, ih) ==
  LET m == FMin(Div(cw, iw), Div(ch, ih))
  IN IF IsNaN(m) \/ IsZero(m) THEN F1 ELSE m

\* variant of BaseOffset: the image is taken to start at the container's corner
BaseOffsetNone(c, b) == F0

\* ex, ey: the base offset of the contained image inside the container
BaseOffset(c, b) == Div(Sub(c, b), F2)

\* variant of ImgStart: the base offset is left out
ImgStartAtOrigin(origin, e, z) == Mul(origin, Sub(F1, z))

\* imgLeft, imgTop: elementOffset + e * zoom, elementOffset = origin * (1 - zoom)
ImgStart(origin, e, z) == Add(Mul(origin, Sub(F1, z)), Mul(e, z))

\* variant of ClipToImage: the far edge of the image does not clamp
ClipToImageUnclamped(s, start, disp) == FMax(F0, Sub(s, start))

\* ix, iy, ix2, iy2: Math.max(0, Math.min(s, start + disp) - start)
ClipToImage(s, start, disp) == FMax(F0, Sub(FMin(s, Add(start, disp)), start))

\* variant of TooSmall: only an empty intersection is rejected
TooSmallEmpty(w, h) == IsZero(w) \/ IsZero(h)

\* selWOnImg < 1 || selHOnImg < 1
TooSmall(w, h) == Lt(w, F1) \/ Lt(h, F1)

\* a pixel coordinate that is not a finite number is written -1 (no
\* coordinate the resolver returns is negative)
NaNPixel == -1

\* Math.max(lo, Math.floor(norm * n))
PixelOf(lo, norm, n) ==
  LET p == Mul(norm, n)
  IN IF p.k = "fin" THEN MaxI(lo, Floor(p)) ELSE NaNPixel

\* the pixel rectangle of an intersection of at least 1 x 1 display pixels
CropOfIntersection(iw, ih, dispW, dispH, ix, iy, selWOnImg, selHOnImg) ==
  IF TooSmall(selWOnImg, selHOnImg) THEN Null
  ELSE Rect(PixelOf(0, Div(ix, dispW), iw),
            PixelOf(0, Div(iy, dispH), ih),
            PixelOf(1, Div(selWOnImg, dispW), iw),
            PixelOf(1, Div(selHOnImg, dispH), ih))

\* selWOnImg, selHOnImg: Math.max(0, ix2 - ix), Math.max(0, iy2 - iy)
CropOfEdges(iw, ih, dispW, dispH, ix, iy, ix2, iy2) ==
  CropOfIntersection(iw, ih, dispW, dispH, ix, iy,
                     FMax(F0, Sub(ix2, ix)), FMax(F0, Sub(iy2, iy)))

\* the intersection of the selection with the displayed image
CropOfDisplayed(sel, iw, ih, imgLeft, imgTop, dispW, dispH) ==
  CropOfEdges(iw, ih, dispW, dispH,
              ClipToImage(sel.x, imgLeft, dispW),
              ClipToImage(sel.y, imgTop, dispH),
              ClipToImage(Add(sel.x, sel.width), imgLeft, dispW),
              ClipToImage(Add(sel.y, sel.height), imgTop, dispH))

\* the displayed image: its top-left corner and size under the zoom
CropOfBase(sel, cw, ch, iw, ih, z, ox, oy, bw, bh) ==
  CropOfDisplayed(sel, iw, ih,
                  ImgStart(ox, BaseOffset(cw, bw), z),
                  ImgStart(oy, BaseOffset(ch, bh), z),
                  Mul(bw, z), Mul(bh, z))

\* bw, bh: the base contained size
CropAtScale(sel, cw, ch, iw, ih, z, ox, oy, baseScale) ==
  CropOfBase(sel, cw, ch, iw, ih, z, ox, oy, Mul(iw, baseScale), Mul(ih, baseScale))

CropInContainer(sel, cw, ch, iw, ih, z, ox, oy) ==
  CropAtScale(sel, cw, ch, iw, ih, z, ox, oy, BaseScale(cw, ch, iw, ih))

\* the resolver on a view: container c, natural size n, image source src,
\* zoom z (in thousandths) and zoom origin (ox, oy)
CropInView(sel, c, n, src, z, ox, oy) ==
  IF ~isValidSelection(sel) THEN Null
  ELSE IF c = Null \/ n = Null \/ src = Null THEN Null
  ELSE CropInContainer(sel,
                       FromInt(c.width), FromInt(c.height),
                       FromInt(n.width), FromInt(n.height),
                       ZoomNumber(z), ox, oy)

\* the resolver as a render calls it, on the page's current state
computeCropPixelsFromSelection(sel) ==
  CropInView(sel, containerSize, naturalSize, imageSrc, zoom, originX, originY)

\* ---- the resolver applied to bounded inputs ----
\* selections start on a grid of SelStep container pixels
MaxStart == 3
SelStep == 8

Geometries ==
  { <<Size(22, 22), Size(22, 22)>>,   \* displayed 1:1
    <<Size(20, 40), Size(40, 40)>>,   \* letterboxed left and right
    <<Size(44, 22), Size(22, 22)>>,   \* letterboxed top and bottom, scaled down
    <<Size(5, 3), Size(30, 24)>> }    \* scaled up

ZoomLevels == {200, 900, 1000, 1100, 5000}

Origins(c) ==
  { <<F0, F0>>,
    <<Div(FromInt(c.width), F2), Div(FromInt(c.height), F2)>>,
    <<FromInt(c.width), FromInt(c.height - 1)>> }

SelStarts == {i * SelStep : i \in 0..MaxStart}
SelWidths == {5, 8, 15, 40}
SelHeights == {0, 8, 22}

Selections ==
  {Null} \cup
  {SelectionAt(x, y, w, h) : x \in SelStarts, y \in {0, 3}, w \in SelWidths, h \in SelHeights}

Image == [url |-> "data:image/png"]
File == [name |-> "image.png", type |-> "image/png"]

InitResolver ==
  /\ file = File
  /\ imageSrc = Image
  /\ \E g \in Geometries :
       /\ naturalSize = g[1]
       /\ containerSize = g[2]
       /\ \E o \in Origins(g[2]) : originX = o[1] /\ originY = o[2]
  /\ zoom \in ZoomLevels
  /\ selection \in Selections
  /\ cropPixels = Null
  /\ pixelRect = Null
  /\ error = Null
  /\ request = Null
  /\ wheelEvents = 0
  /\ pc = "input"
  /\ PageDefaults

\* one call of the resolver on the current view state
Resolve ==
  /\ pc = "input"
  /\ cropPixels' = computeCropPixelsFromSelection(selection)
  /\ pc' = "resolved"
  /\ UNCHANGED <<imageVars, viewVars, selection, pixelRect, resizeVars, printVars, sendVars, pageVars, lastEvent>>

NextResolver == Resolve

SpecResolver == InitResolver /\ [][NextResolver]_vars

\* ---- the concrete scenario of the specification ----
\* a 1000 x 500 image in a 500 x 500 container at zoom 1, under zoom origins
\* on a grid of OriginStep container pixels
MaxOriginSteps == 10
OriginStep == 50

ScenarioOrigins == {FromInt(i * OriginStep) : i \in 0..MaxOriginSteps}

InitScenario ==
  /\ file = File
  /\ imageSrc = Image
  /\ naturalSize = Size(1000, 500)
  /\ containerSize = Size(500, 500)
  /\ zoom = 1000
  /\ originX \in ScenarioOrigins
  /\ originY \in ScenarioOrigins
  /\ selection = SelectionAt(125, 0, 250, 250)
  /\ cropPixels = Null
  /\ pixelRect = Null
  /\ error = Null
  /\ request = Null
  /\ wheelEvents = 0
  /\ pc = "input"
  /\ PageDefaults

NextScenario == Resolve

SpecScenario == InitScenario /\ [][NextScenario]_vars

\* ---- the display transform: where the page draws the image ----
\* object-contain scales the image by the smaller of the two ratios and
\* centres it; transform: scale(zoom) with transform-origin (originX, originY)
\* moves a point p of the container to origin + (p - origin) * zoom.
ContainScale(cw, ch, iw, ih) == FMin(Div(cw, iw), Div(ch, ih))

\* the container coordinate at which image coordinate p of an axis is drawn
DisplayCoord(p, n, c, origin, scale, z) ==
  Add(origin, Mul(Sub(Add(Div(Sub(c, Mul(n, scale)), F2), Mul(p, scale)), origin), z))

\* the drawn length of len image pixels
DisplayExtent(len, scale, z) == Mul(Mul(len, scale), z)

DisplayRectAt(r, cw, ch, iw, ih, scale, z) ==
  Rect(DisplayCoord(FromInt(r.x), iw, cw, originX, scale, z),
       DisplayCoord(FromInt(r.y), ih, ch, originY, scale, z),
       DisplayExtent(FromInt(r.width), scale, z),
       DisplayExtent(FromInt(r.height), scale, z))

DisplayRectScaled(r, cw, ch, iw, ih, z) ==
  DisplayRectAt(r, cw, ch, iw, ih, ContainScale(cw, ch, iw, ih), z)

\* the container rectangle that covers the image pixels r on screen
DisplayRect(r) ==
  DisplayRectScaled(r,
                    FromInt(containerSize.width), FromInt(containerSize.height),
                    FromInt(naturalSize.width), FromInt(naturalSize.height),
                    ZoomNumber(zoom))

\* pixel rectangles inside an image of size n
PixelRects(n) ==
  {Rect(x, y, w, h) :
     x \in {0, 1, n.width \div 2}, w \in {1, n.width \div 2, n.width},
     y \in {0, n.height \div 2}, h \in {n.height \div 2, n.height}}

InitRoundTrip ==
  /\ file = File
  /\ imageSrc = Image
  /\ \E g \in Geometries :
       /\ naturalSize = g[1]
       /\ containerSize = g[2]
       /\ \E o \in Origins(g[2]) : originX = o[1] /\ originY = o[2]
       /\ \E r \in PixelRects(g[1]) :
            /\ r.x + r.width <= g[1].width
            /\ r.y + r.height <= g[1].height
            /\ pixelRect = r
  /\ zoom \in ZoomLevels
  /\ selection = Null
  /\ cropPixels = Null
  /\ error = Null
  /\ request = Null
  /\ wheelEvents = 0
  /\ pc = "pixels"
  /\ PageDefaults

\* the user drags a selection over exactly the drawn pixels of pixelRect
SelectPixels ==
  /\ pc = "pixels"
  /\ selection' = DisplayRect(pixelRect)
  /\ pc' = "input"
  /\ UNCHANGED <<imageVars, viewVars, cropPixels, pixelRect, resizeVars, printVars, sendVars, pageVars, lastEvent>>

NextRoundTrip == SelectPixels \/ Resolve

SpecRoundTrip == InitRoundTrip /\ [][NextRoundTrip]_vars

\* ---- zooming with the wheel ----
MaxWheelEvents == 4
MinZoom == 200
MaxZoom == 5000

\* the literals 1.1 and 0.9 as doubles
ZoomInFactor == Div(FromInt(11), FromInt(10))
ZoomOutFactor == Div(FromInt(9), FromInt(10))

\* e.deltaY < 0 ? 1.1 : 0.9
ZoomFactor(deltaY) == IF deltaY < 0 THEN ZoomInFactor ELSE ZoomOutFactor

\* Number(x.toFixed(3)) in thousandths, for a finite x >= 0: the integer n
\* with n / 1000 nearest to x, the larger one on a tie
ToFixed3(x) ==
  IF x.m = <<>> THEN 0
  ELSE IF x.e >= 0 THEN BigToInt(ShiftLeft(BigMul(x.m, BigFromInt(1000)), x.e))
  ELSE BigToInt(ShiftRight(BigAdd(BigMul(x.m, BigFromInt(1000)),
                                  ShiftLeft(BigFromInt(1), (-x.e) - 1)),
                           -x.e))

\* Math.min(5, Math.max(0.2, Number((prevZoom * zoomFactor).toFixed(3))))
WheelZoomUnclamped(prevZoom, deltaY) ==
  ToFixed3(Mul(ZoomNumber(prevZoom), ZoomFactor(deltaY)))

WheelZoom(prevZoom, deltaY) ==
  MinI(MaxZoom, MaxI(MinZoom, ToFixed3(Mul(ZoomNumber(prevZoom), ZoomFactor(deltaY)))))

\* square images in an aspect-matched container
ZoomGeometries ==
  { <<Size(8, 8), Size(20, 20)>>,
    <<Size(24, 24), Size(24, 24)>>,
    <<Size(60, 60), Size(40, 40)>> }

Centre(c) == <<Div(FromInt(c.width), F2), Div(FromInt(c.height), F2)>>

\* selections centred on the container's centre
CentredSelections(c) ==
  { SelectionAt(0, 0, c.width, c.height),
    SelectionAt(c.width \div 4, c.height \div 4, c.width \div 2, c.height \div 2) }

Pointers(c) == {Centre(c), <<F0, F0>>}

InitZoom ==
  /\ file = File
  /\ imageSrc = Image
  /\ \E g \in ZoomGeometries :
       /\ naturalSize = g[1]
       /\ containerSize = g[2]
       /\ originX = Centre(g[2])[1]
       /\ originY = Centre(g[2])[2]
       /\ selection \in CentredSelections(g[2])
  /\ zoom = 1000
  /\ cropPixels = Null
  /\ pixelRect = Null
  /\ error = Null
  /\ request = Null
  /\ wheelEvents = 0
  /\ pc = "input"
  /\ PageDefaults

\* a wheel event over the container with the pointer at (pointerX, pointerY);
\* the render that follows resolves the selection again for its label
onWheel(pointerX, pointerY, deltaY) ==
  /\ pc = "resolved"
  /\ containerSize /= Null
  /\ wheelEvents < MaxWheelEvents
  /\ originX' = pointerX
  /\ originY' = pointerY
  /\ zoom' = WheelZoom(zoom, deltaY)
  /\ wheelEvents' = wheelEvents + 1
  /\ UNCHANGED <<imageVars, selection, pixelRect, resizeVars, printVars, sendVars, pc, pageVars>>
  /\ lastEvent' = "onWheel"
  /\ cropPixels' = CropInView(selection, containerSize, naturalSize, imageSrc,
                            zoom', pointerX, pointerY)

NextZoom ==
  \/ Resolve
  \/ \E p \in Pointers(containerSize), deltaY \in {-1, 1} : onWheel(p[1], p[2], deltaY)

SpecZoom == InitZoom /\ [][NextZoom]_vars

\* ---- the resolver on sizes with a zero dimension ----
\* naturalWidth and naturalHeight are 0 for an image without intrinsic size,
\* clientWidth and clientHeight are 0 for a container that is not laid out
SizesWithZero(w, h) == {Size(a, b) : a \in {0, w}, b \in {0, h}}

InitInvalid ==
  /\ file = File
  /\ imageSrc = Image
  /\ naturalSize \in SizesWithZero(20, 40)
  /\ containerSize \in SizesWithZero(40, 40)
  /\ zoom \in ZoomLevels
  /\ originX \in {F0, FromInt(20)}
  /\ originY = originX
  /\ selection \in {SelectionAt(0, 0, 8, 8), SelectionAt(8, 0, 15, 22), SelectionAt(0, 0, 40, 40)}
  /\ cropPixels = Null
  /\ pixelRect = Null
  /\ error = Null
  /\ request = Null
  /\ wheelEvents = 0
  /\ pc = "input"
  /\ PageDefaults

NextInvalid == Resolve

SpecInvalid == InitInvalid /\ [][NextInvalid]_vars

\* ---- the handlers that send the image to the backend ----
PdfFile == [name |-> "document.pdf", type |-> "application/pdf"]

\* new File([blob], "crop.png", ...) of getCroppedBlob(imageSrc, crop)
CropFile(crop) == [name |-> "crop.png", type |-> "image/png", crop |-> crop]

\* fetch(endpoint, {method: "POST", body: form}) with f as the form's file
Post(endpoint, f) ==
  /\ request' = [endpoint |-> endpoint, file |-> f]
  /\ error' = Null
  /\ pc' = "posted"

\* setError(message) and return
Fail(message) ==
  /\ error' = [message |-> message]
  /\ request' = request
  /\ pc' = "failed"

\* The resolver is a pure function of the view and the handlers do not
\* change the view before they call it: their calls return the value Resolve
\* left in cropPixels for the same state.  canvas tells whether
\* getCroppedBlob gets a 2d context.

\* fileToSend of onSubmit and onProcess: the crop if the resolver gave one,
\* else the file, else the image source fetched as image.png
PostFileToSend(endpoint, crop, canvas, noFile) ==
  IF crop /= Null
    THEN IF canvas THEN Post(endpoint, CropFile(crop)) ELSE Fail("Canvas not supported")
    ELSE IF file /= Null THEN Post(endpoint, file)
    ELSE IF imageSrc /= Null THEN Post(endpoint, File)
    ELSE Fail(noFile)

\* the crop onSubmit and onProcess apply: if (imageSrc && selection) { ... }
CropIfSelected ==
  IF imageSrc /= Null /\ selection /= Null THEN cropPixels ELSE Null

onSubmit(canvas) ==
  /\ pc = "resolved"
  /\ IF file = Null /\ imageSrc = Null
       THEN Fail("Please select an image.")
       ELSE PostFileToSend(IF file /= Null /\ file.type = "application/pdf"
                             THEN "/analyze_pdf" ELSE "/analyze",
                           CropIfSelected, canvas, "No file to send")
  /\ UNCHANGED <<imageVars, viewVars, selection, cropPixels, pixelRect, resizeVars, printVars, pageVars>>
  /\ lastEvent' = "onSubmit"

onProcess(canvas) ==
  /\ pc = "resolved"
  /\ IF imageSrc = Null /\ file = Null
       THEN Fail("Please select an image first.")
       ELSE PostFileToSend("/process", CropIfSelected, canvas, "No file to process")
  /\ UNCHANGED <<imageVars, viewVars, selection, cropPixels, pixelRect, resizeVars, printVars, pageVars>>
  /\ lastEvent' = "onProcess"

\* toSend of the remove-background and resize buttons: with a selection of
\* at least 8 x 8 a null crop throws; without one the image source is sent
PostToSend(endpoint, canvas, invalid) ==
  IF isValidSelection(selection)
    THEN IF cropPixels = Null THEN Fail(invalid)
         ELSE IF canvas THEN Post(endpoint, CropFile(cropPixels))
         ELSE Fail("Canvas not supported")
    ELSE Post(endpoint, File)

onRemoveBackground(canvas) ==
  /\ pc = "resolved"
  /\ imageSrc /= Null
  /\ PostToSend("/remove_background", canvas, "Selectie invalida pentru decupare")
  /\ UNCHANGED <<imageVars, viewVars, selection, cropPixels, pixelRect, resizeVars, printVars, pageVars>>
  /\ lastEvent' = "onRemoveBackground"

\* w, h and d are parseFloat(resizeWidth), parseFloat(resizeHeight) and
\* parseInt(resizeDpi, 10)
onResize(w, h, d, canvas) ==
  /\ pc = "resolved"
  /\ imageSrc /= Null
  /\ IF ~(w > 0 /\ h > 0 /\ d > 0)
       THEN Fail("Valori invalid dimensionare")
       ELSE PostToSend("/resize", canvas, "Selectie invalida pentru redimensionare")
  /\ UNCHANGED <<imageVars, viewVars, selection, cropPixels, pixelRect, resizeVars, printVars, pageVars>>
  /\ lastEvent' = "onResize"

\* the backend answers the request in flight: res.ok or not
Respond(ok) ==
  /\ pc = "posted"
  /\ error' = IF ok THEN error ELSE [message |-> "Request failed"]
  /\ pc' = "done"
  /\ UNCHANGED <<imageVars, viewVars, selection, cropPixels, pixelRect, resizeVars, printVars, request, pageVars, lastEvent>>

\* a selection inside the image, one in the letterbox margin, one too small
SendSelections ==
  {Null, SelectionAt(8, 0, 15, 22), SelectionAt(0, 0, 8, 8), SelectionAt(8, 3, 5, 8)}

ResizeInputs == {<<100, 100, 300>>, <<0, 100, 300>>}

InitSend ==
  /\ \/ /\ file = Null /\ imageSrc = Null /\ naturalSize = Null /\ containerSize = Null
        /\ selection = Null
        /\ originX = F0 /\ originY = F0
     \/ /\ file \in {File, PdfFile} /\ imageSrc = Image
        /\ \E g \in Geometries :
             /\ naturalSize = g[1]
             /\ containerSize = g[2]
             /\ originX = Centre(g[2])[1]
             /\ originY = Centre(g[2])[2]
        /\ selection \in SendSelections
  /\ zoom = 1000
  /\ cropPixels = Null
  /\ pixelRect = Null
  /\ error = Null
  /\ request = Null
  /\ wheelEvents = 0
  /\ pc = "input"
  /\ PageDefaults

NextSend ==
  \/ Resolve
  \/ \E canvas \in BOOLEAN : onSubmit(canvas)
  \/ \E canvas \in BOOLEAN : onProcess(canvas)
  \/ \E canvas \in BOOLEAN : onRemoveBackground(canvas)
  \/ \E r \in ResizeInputs, canvas \in BOOLEAN : onResize(r[1], r[2], r[3], canvas)
  \/ \E ok \in BOOLEAN : Respond(ok)

SpecSend == InitSend /\ [][NextSend]_vars

\* ---- the geometry of spec section 4.1 in exact rational arithmetic ----
\* Used only to state properties.  Lengths are integers in units of
\* 1 / ExactUnit of a container pixel; the origin is a multiple of 1/2 and
\* the selection has integer coordinates.
IntOf(x) == Floor(x)
TwiceOf(x) == Floor(Add(x, x))

FitsByWidth ==
  containerSize.width * naturalSize.height <= containerSize.height * naturalSize.width

\* baseScale = ScaleNum / ScaleDen
ScaleNum == IF FitsByWidth THEN containerSize.width ELSE containerSize.height
ScaleDen == IF FitsByWidth THEN naturalSize.width ELSE naturalSize.height

ExactUnit == 2000 * ScaleDen

ExactDispW == 2 * naturalSize.width * ScaleNum * zoom
ExactDispH == 2 * naturalSize.height * ScaleNum * zoom

ExactImgLeft ==
  TwiceOf(originX) * ScaleDen * (1000 - zoom)
    + (containerSize.width * ScaleDen - naturalSize.width * ScaleNum) * zoom

ExactImgTop ==
  TwiceOf(originY) * ScaleDen * (1000 - zoom)
    + (containerSize.height * ScaleDen - naturalSize.height * ScaleNum) * zoom

Clamp(v, lo, hi) == IF v < lo THEN lo ELSE IF v > hi THEN hi ELSE v

\* the selection's edges clamped to the displayed image, relative to its corner
ExactIx == Clamp(IntOf(selection.x) * ExactUnit, ExactImgLeft, ExactImgLeft + ExactDispW) - ExactImgLeft
ExactIx2 ==
  Clamp((IntOf(selection.x) + IntOf(selection.width)) * ExactUnit,
        ExactImgLeft, ExactImgLeft + ExactDispW) - ExactImgLeft
ExactIy == Clamp(IntOf(selection.y) * ExactUnit, ExactImgTop, ExactImgTop + ExactDispH) - ExactImgTop
ExactIy2 ==
  Clamp((IntOf(selection.y) + IntOf(selection.height)) * ExactUnit,
        ExactImgTop, ExactImgTop + ExactDispH) - ExactImgTop

\* steps 1-7 of spec section 4.1
ReferenceCrop ==
  IF selection = Null THEN Null
  ELSE IF ExactIx2 - ExactIx < ExactUnit \/ ExactIy2 - ExactIy < ExactUnit THEN Null
  ELSE Rect(MaxI(0, (ExactIx * naturalSize.width) \div ExactDispW),
            MaxI(0, (ExactIy * naturalSize.height) \div ExactDispH),
            MaxI(1, ((ExactIx2 - ExactIx) * naturalSize.width) \div ExactDispW),
            MaxI(1, ((ExactIy2 - ExactIy) * naturalSize.height) \div ExactDispH))

Resolved == pc = "resolved"

\* C1: a crop the resolver returns is a rectangle inside the natural image:
\* x >= 0, y >= 0, width >= 1, height >= 1, x + width <= naturalWidth and
\* y + height <= naturalHeight.
C1_CropInsideImage ==
  (Resolved /\ cropPixels /= Null) =>
    /\ cropPixels.x >= 0 /\ cropPixels.y >= 0
    /\ cropPixels.width >= 1 /\ cropPixels.height >= 1
    /\ cropPixels.x + cropPixels.width <= naturalSize.width
    /\ cropPixels.y + cropPixels.height <= naturalSize.height

\* a selection that starts inside the image and reaches past its right edge
\* is resolved to a crop that ends at the natural width
C1_Witness ==
  /\ Resolved /\ cropPixels /= Null
  /\ ExactIx > 0
  /\ (IntOf(selection.x) + IntOf(selection.width)) * ExactUnit > ExactImgLeft + ExactDispW
  /\ cropPixels.x > 0
  /\ cropPixels.x + cropPixels.width = naturalSize.width

\* C2: the resolver returns what steps 1-7 of spec section 4.1 return, on
\* every selection the page accepts as a crop (at least 8 x 8): null in the
\* same cases and otherwise the same x, y, width and height.
C2_MatchesReference ==
  (Resolved /\ isValidSelection(selection)) => cropPixels = ReferenceCrop

\* C4: when the natural size equals the container size and zoom is 1, the
\* crop of a selection of at least 8 x 8 is the selection clamped to the image.
C4_IdentityAtZoomOne ==
  (/\ Resolved /\ isValidSelection(selection)
   /\ naturalSize = containerSize /\ zoom = 1000
   /\ IntOf(selection.x) < naturalSize.width /\ IntOf(selection.y) < naturalSize.height) =>
    cropPixels =
      Rect(IntOf(selection.x), IntOf(selection.y),
           MinI(IntOf(selection.x) + IntOf(selection.width), naturalSize.width) - IntOf(selection.x),
           MinI(IntOf(selection.y) + IntOf(selection.height), naturalSize.height) - IntOf(selection.y))

\* C5: in a container wider than the image's aspect ratio, a selection that
\* lies entirely left of the displayed image or entirely right of it
\* resolves to null, at every zoom.
InSideMargin ==
  \/ (IntOf(selection.x) + IntOf(selection.width)) * ExactUnit <= ExactImgLeft
  \/ IntOf(selection.x) * ExactUnit >= ExactImgLeft + ExactDispW

C5_SideMarginIsNull ==
  (/\ Resolved /\ selection /= Null /\ ~FitsByWidth /\ InSideMargin) => cropPixels = Null

\* a selection of at least 8 x 8 in the side margin of a zoomed image
C5_Witness ==
  /\ Resolved /\ isValidSelection(selection) /\ ~FitsByWidth /\ InSideMargin
  /\ zoom /= 1000
  /\ ExactImgLeft > 0
  /\ cropPixels = Null

\* C10: the resolver returns null when the selection's width or height is 0
\* and when its intersection with the displayed image is less than 1 display
\* pixel wide or high.
C10_DegenerateIsNull ==
  (/\ Resolved /\ selection /= Null
   /\ \/ IsZero(selection.width) \/ IsZero(selection.height)
      \/ ExactIx2 - ExactIx < ExactUnit
      \/ ExactIy2 - ExactIy < ExactUnit) => cropPixels = Null

\* a selection of at least 8 x 8 that overlaps the image by less than a pixel
C10_Witness ==
  /\ Resolved /\ isValidSelection(selection)
  /\ ExactIx2 - ExactIx > 0 /\ ExactIx2 - ExactIx < ExactUnit
  /\ ExactIy2 - ExactIy >= ExactUnit
  /\ cropPixels = Null

\* C3: with a 1000 x 500 image in a 500 x 500 container at zoom 1, under any
\* zoom origin, the selection {125, 0, 250, 250} resolves to {250, 0, 500, 250}.
C3_ConcreteScenario ==
  (/\ Resolved
   /\ naturalSize = Size(1000, 500) /\ containerSize = Size(500, 500) /\ zoom = 1000
   /\ selection = SelectionAt(125, 0, 250, 250)) =>
    cropPixels = Rect(250, 0, 500, 250)

\* the scenario resolved under a zoom origin away from the container's corner
C3_Witness ==
  /\ Resolved
  /\ naturalSize = Size(1000, 500) /\ containerSize = Size(500, 500) /\ zoom = 1000
  /\ selection = SelectionAt(125, 0, 250, 250)
  /\ ~IsZero(originX) /\ ~IsZero(originY)
  /\ cropPixels = Rect(250, 0, 500, 250)

WithinOne(a, b) == a - b <= 1 /\ b - a <= 1

ReproducesPixelRect ==
  /\ cropPixels /= Null
  /\ WithinOne(cropPixels.x, pixelRect.x)
  /\ WithinOne(cropPixels.y, pixelRect.y)
  /\ WithinOne(cropPixels.width, pixelRect.width)
  /\ WithinOne(cropPixels.height, pixelRect.height)

AtCentre(c) == originX = Centre(c)[1] /\ originY = Centre(c)[2]

\* C7: with the zoom origin and a selection centred on the image centre held
\* fixed, the crop after zooming in is no wider and no higher than before.
C7_ZoomInNeverGrowsCrop ==
  [][(/\ zoom' >= zoom
      /\ AtCentre(containerSize) /\ originX' = originX /\ originY' = originY
      /\ selection' = selection
      /\ cropPixels /= Null /\ cropPixels' /= Null) =>
       (/\ cropPixels'.width <= cropPixels.width
        /\ cropPixels'.height <= cropPixels.height)]_vars

ZeroDimension ==
  \/ naturalSize.width = 0 \/ naturalSize.height = 0
  \/ containerSize.width = 0 \/ containerSize.height = 0

\* C8: when the natural size or the container size has a zero dimension the
\* resolver gives no pixel rectangle: its outcome is an error, never a
\* rectangle computed from the invalid sizes.
C8_NoRectangleFromZeroSize == (Resolved /\ ZeroDimension) => cropPixels = Null

\* C9: in every send action (analyze submit, process, remove background,
\* resize with usable inputs), when a selection exists and the resolver
\* returns null for it, the action posts the full original image and sets no
\* error.
C9_NullCropPostsOriginal ==
  (/\ pc \in {"posted", "failed"}
   /\ imageSrc /= Null /\ selection /= Null
   /\ cropPixels = Null
   /\ error /= [message |-> "Valori invalid dimensionare"]) =>
    (/\ pc = "posted"
     /\ request /= Null /\ request.file \in {File, PdfFile}
     /\ error = Null)

\* ---- the legacy page: zoom under wheel, reset and file selection ----
MaxLegacyFileSelections == 1
MaxLegacyWheelEvents == 17

\* an asynchronous handler waiting on its await: the file-input handler of
\* file f at "read" (readFileToDataURL) or "decode" (createImage), started
\* by the given file selection
FileTask(f, at, started) ==
  [handler |-> "onFileChange", of |-> f, at |-> at, started |-> started]

\* the legacy wheel listener, attached while the container is rendered;
\* here wheelEvents counts the wheel events since the zoom was last set to 1
legacyOnWheel(pointerX, pointerY, deltaY) ==
  /\ imageSrc /= Null
  /\ wheelEvents < MaxLegacyWheelEvents
  /\ wheelEvents' = wheelEvents + 1
  /\ transformOrigin' = [x |-> pointerX, y |-> pointerY]
  /\ zoom' = WheelZoom(zoom, deltaY)
  /\ lastEvent' = "onWheel"
  /\ UNCHANGED <<imageVars, originX, originY, selection, cropPixels,
                 pixelRect, resizeVars, printVars, sendVars, pc, dragVars, outputVars, tasks, fileSelections, events>>

\* the legacy Reset zoom button, shown with the image
legacyResetZoom ==
  /\ imageSrc /= Null
  /\ zoom' = 1000
  /\ wheelEvents' = 0
  /\ transformOrigin' = [keyword |-> "center center"]
  /\ lastEvent' = "resetZoom"
  /\ UNCHANGED <<imageVars, originX, originY, selection, cropPixels,
                 pixelRect, resizeVars, printVars, sendVars, pc, dragVars, outputVars, tasks, fileSelections, events>>

\* the legacy file input's onChange up to its first await, with the effect
\* on [imageSrc] of the render that follows
legacyOnFileChange(f) ==
  /\ fileSelections < MaxLegacyFileSelections
  /\ fileSelections' = fileSelections + 1
  /\ file' = f
  /\ lastEvent' = "onFileChange"
  /\ IF f /= Null /\ f.type /= "application/pdf"
       THEN /\ tasks' = tasks \cup {FileTask(f, "read", fileSelections + 1)}
            /\ UNCHANGED <<imageSrc, naturalSize, selection, startPoint, zoom,
                           wheelEvents, transformOrigin, toSendPreviewUrl>>
       ELSE /\ tasks' = tasks
            /\ imageSrc' = Null
            /\ naturalSize' = Null
            /\ selection' = Null
            /\ startPoint' = IF f = Null THEN startPoint ELSE Null
            /\ toSendPreviewUrl' = IF f = Null THEN toSendPreviewUrl ELSE Null
            /\ zoom' = IF f = Null /\ imageSrc = Null THEN zoom ELSE 1000
            /\ wheelEvents' = IF f = Null /\ imageSrc = Null THEN wheelEvents ELSE 0
            /\ transformOrigin' = IF imageSrc = Null THEN transformOrigin
                                  ELSE [keyword |-> "center center"]
  /\ UNCHANGED <<containerSize, originX, originY, cropPixels, pixelRect, resizeVars, printVars,
                 sendVars, pc, cropMode, selecting, dragging, fixedWidth, fixedHeight,
                 processedUrl, processedType, events>>

\* the legacy handler resumes: after readFileToDataURL it sets imageSrc (and
\* the effect on [imageSrc] runs if it changed); after createImage, which
\* resolves (ok) or rejects, it sets the rest
legacyFileLoaded(t, ok) ==
  /\ t \in tasks
  /\ t.handler = "onFileChange"
  /\ lastEvent' = "fileLoaded"
  /\ IF t.at = "read"
       THEN /\ ok
            /\ tasks' = (tasks \ {t}) \cup {FileTask(t.of, "decode", t.started)}
            /\ imageSrc' = Image
            /\ zoom' = IF imageSrc = Image THEN zoom ELSE 1000
            /\ wheelEvents' = IF imageSrc = Image THEN wheelEvents ELSE 0
            /\ transformOrigin' = IF imageSrc = Image THEN transformOrigin
                                  ELSE [keyword |-> "center center"]
            /\ UNCHANGED <<naturalSize, selection, startPoint, toSendPreviewUrl>>
       ELSE /\ tasks' = tasks \ {t}
            /\ naturalSize' = IF ok THEN Size(24, 24) ELSE Null
            /\ selection' = Null
            /\ startPoint' = Null
            /\ zoom' = 1000
            /\ wheelEvents' = 0
            /\ toSendPreviewUrl' = Null
            /\ UNCHANGED <<imageSrc, transformOrigin>>
  /\ UNCHANGED <<file, containerSize, originX, originY, cropPixels,
                 pixelRect, resizeVars, printVars, sendVars, pc, cropMode, selecting, dragging, fixedWidth,
                 fixedHeight, processedUrl, processedType, fileSelections, events>>

InitLegacy ==
  /\ file = Null /\ imageSrc = Null /\ naturalSize = Null /\ containerSize = Null
  /\ zoom = 1000 /\ originX = F0 /\ originY = F0
  /\ selection = Null
  /\ cropPixels = Null
  /\ pixelRect = Null
  /\ error = Null
  /\ request = Null
  /\ wheelEvents = 0
  /\ pc = "input"
  /\ PageDefaults

NextLegacy ==
  \/ \E deltaY \in {-1, 1} : legacyOnWheel(FromInt(3), FromInt(4), deltaY)
  \/ legacyResetZoom
  \/ \E f \in {File, PdfFile} : legacyOnFileChange(f)
  \/ \E t \in tasks, ok \in BOOLEAN : legacyFileLoaded(t, ok)

SpecLegacy == InitLegacy /\ [][NextLegacy]_vars

\* C11: in every state reachable by wheel gestures, reset-zoom clicks and
\* file selections the zoom lies in [0.2, 5]; it is 1 before the first event
C11_ZoomInRange ==
  /\ zoom >= MinZoom
  /\ zoom <= MaxZoom
  /\ (lastEvent = "none" => zoom = 1000)

\* the wheel has driven the zoom onto its upper limit
C11_Witness == lastEvent = "onWheel" /\ zoom = MaxZoom


\* ---- the page: file input, mouse, crop mode, buttons and their async work ----
MaxFileSelections == 2
MaxPageWheelEvents == 1

OtherFile == [name |-> "other.png", type |-> "image/png"]

\* naturalWidth and naturalHeight of the image createImage decodes from f
createImage(f) == IF f = File THEN Size(6, 6) ELSE Size(6, 3)

\* the container element: rendered while imageSrc is set, as wide as its
\* column (24 here) and as high as its aspect-ratio style makes it
Layout(src, n) ==
  IF src = Null THEN Null
  ELSE IF n = Null THEN Size(24, 18)
  ELSE Size(24, (24 * n.height) \div n.width)

\* fixW and fixH of the fixed crop mode
FixedSize ==
  <<FromInt(MaxI(5, MinI(fixedWidth, IF naturalSize = Null THEN 1000 ELSE naturalSize.width))),
    FromInt(MaxI(5, MinI(fixedHeight, IF naturalSize = Null THEN 1000 ELSE naturalSize.height)))>>

\* the fixed-size rectangle centred on (x, y) and kept inside the container
FixedRect(x, y) ==
  Rect(FMax(F0, FMin(Sub(x, Div(FixedSize[1], F2)),
                     Sub(FromInt(containerSize.width), FixedSize[1]))),
       FMax(F0, FMin(Sub(y, Div(FixedSize[2], F2)),
                     Sub(FromInt(containerSize.height), FixedSize[2]))),
       FixedSize[1], FixedSize[2])

\* refreshToSendPreview() called by a handler: it reads the state of the
\* render the handler closed over (the unprimed state, for which Resolve
\* left the resolver's value in cropPixels) and, with a crop, awaits
\* getCroppedBlob before it sets the preview
refreshToSendPreview ==
  /\ processedUrl' = Null
  /\ processedType' = Null
  /\ IF imageSrc /= Null /\ isValidSelection(selection) /\ cropPixels /= Null
       THEN /\ tasks' = tasks \cup {[handler |-> "refreshToSendPreview", of |-> cropPixels,
                                    at |-> "getCroppedBlob", started |-> fileSelections]}
            /\ toSendPreviewUrl' = toSendPreviewUrl
       ELSE /\ tasks' = tasks
            /\ toSendPreviewUrl' = Null

\* getCroppedBlob resolved: setToSendPreviewUrl(url)
previewReady(t) ==
  /\ pc = "resolved"
  /\ t \in tasks
  /\ t.handler = "refreshToSendPreview"
  /\ tasks' = tasks \ {t}
  /\ toSendPreviewUrl' = [crop |-> t.of]
  /\ lastEvent' = lastEvent
  /\ UNCHANGED <<imageVars, viewVars, selection, cropPixels, pixelRect, resizeVars, printVars, sendVars, pc,
                 dragVars, processedUrl, processedType, transformOrigin, fileSelections>>

\* the file input's onChange up to its first await, with the effect on
\* [imageSrc] of the render that follows
onFileChange(f) ==
  /\ pc = "resolved"
  /\ fileSelections < MaxFileSelections
  /\ fileSelections' = fileSelections + 1
  /\ file' = f
  /\ processedUrl' = Null
  /\ processedType' = Null
  /\ lastEvent' = "onFileChange"
  /\ IF f /= Null
       THEN /\ tasks' = tasks \cup
                  {FileTask(f, IF f.type = "application/pdf" THEN "convert" ELSE "read",
                            fileSelections + 1)}
            /\ UNCHANGED <<imageSrc, naturalSize, containerSize, selection, zoom,
                           originX, originY, pc>>
       ELSE /\ tasks' = tasks
            /\ imageSrc' = Null
            /\ naturalSize' = Null
            /\ containerSize' = Null
            /\ selection' = Null
            /\ zoom' = IF imageSrc = Null THEN zoom ELSE 1000
            /\ originX' = IF imageSrc = Null THEN originX ELSE F0
            /\ originY' = IF imageSrc = Null THEN originY ELSE F0
            /\ pc' = "input"
  /\ UNCHANGED <<wheelEvents, cropPixels, pixelRect, resizeVars, printVars, sendVars, dragVars,
                 toSendPreviewUrl, transformOrigin>>

\* the file input's handler resumes after an await that resolved (ok) or
\* rejected.  After readFileToDataURL or convertPdfToImageViaBackend it sets
\* imageSrc; the render that follows lays the container out with the
\* naturalSize of that moment and runs the effect on [imageSrc].  After
\* createImage it sets naturalSize and clears selection, zoom and preview.
fileLoaded(t, ok) ==
  /\ pc = "resolved"
  /\ t \in tasks
  /\ t.handler = "onFileChange"
  /\ lastEvent' = lastEvent
  /\ IF t.at /= "decode" /\ (ok \/ t.at = "convert")
       THEN /\ tasks' = (tasks \ {t}) \cup
                          (IF ok THEN {FileTask(t.of, "decode", t.started)} ELSE {})
            /\ imageSrc' = IF ok THEN [url |-> t.of.name] ELSE Null
            /\ naturalSize' = IF ok THEN naturalSize ELSE Null
            /\ selection' = IF ok THEN selection ELSE Null
            /\ startPoint' = IF ok THEN startPoint ELSE Null
            /\ toSendPreviewUrl' = IF ok THEN toSendPreviewUrl ELSE Null
            /\ containerSize' = Layout(imageSrc', naturalSize')
            /\ zoom' = IF imageSrc' = imageSrc /\ ok THEN zoom ELSE 1000
            /\ originX' = IF imageSrc' = imageSrc THEN originX
                          ELSE IF containerSize' = Null THEN F0
                          ELSE Centre(containerSize')[1]
            /\ originY' = IF imageSrc' = imageSrc THEN originY
                          ELSE IF containerSize' = Null THEN F0
                          ELSE Centre(containerSize')[2]
            /\ pc' = "input"
       ELSE IF t.at /= "decode"
       THEN /\ tasks' = tasks \ {t}
            /\ UNCHANGED <<imageSrc, naturalSize, containerSize, selection, startPoint,
                           toSendPreviewUrl, zoom, originX, originY, pc>>
       ELSE /\ tasks' = tasks \ {t}
            /\ imageSrc' = IF ok \/ t.of.type /= "application/pdf" THEN imageSrc ELSE Null
            /\ naturalSize' = IF ok THEN createImage(t.of) ELSE Null
            /\ containerSize' = Layout(imageSrc', naturalSize')
            /\ selection' = Null
            /\ startPoint' = Null
            /\ toSendPreviewUrl' = Null
            /\ zoom' = 1000
            /\ originX' = IF imageSrc' = imageSrc THEN originX ELSE F0
            /\ originY' = IF imageSrc' = imageSrc THEN originY ELSE F0
            /\ pc' = "input"
  /\ UNCHANGED <<file, wheelEvents, cropPixels, pixelRect, resizeVars, printVars, sendVars, cropMode, selecting,
                 dragging, fixedWidth, fixedHeight, processedUrl, processedType,
                 transformOrigin, fileSelections>>

\* mouse down in the container at (x, y)
onMouseDown(x, y) ==
  /\ pc = "resolved"
  /\ containerSize /= Null
  /\ IF cropMode = "free"
       THEN /\ selecting' = TRUE
            /\ startPoint' = [x |-> x, y |-> y]
            /\ selection' = Rect(x, y, F0, F0)
            /\ dragging' = dragging
       ELSE /\ dragging' = TRUE
            /\ selection' = FixedRect(x, y)
            /\ UNCHANGED <<selecting, startPoint>>
  /\ pc' = "input"
  /\ lastEvent' = "onMouseDown"
  /\ UNCHANGED <<imageVars, viewVars, cropPixels, pixelRect, resizeVars, printVars, sendVars, cropMode,
                 fixedWidth, fixedHeight, outputVars, transformOrigin, tasks, fileSelections>>

\* mouse move in the container to (x, y), while a drag is on
onMouseMove(x, y) ==
  /\ pc = "resolved"
  /\ containerSize /= Null
  /\ \/ /\ cropMode = "free" /\ selecting /\ startPoint /= Null
        /\ selection' = Rect(FMin(startPoint.x, x), FMin(startPoint.y, y),
                             IF Lt(x, startPoint.x) THEN Sub(startPoint.x, x)
                                                    ELSE Sub(x, startPoint.x),
                             IF Lt(y, startPoint.y) THEN Sub(startPoint.y, y)
                                                    ELSE Sub(y, startPoint.y))
     \/ /\ cropMode = "fixed" /\ dragging /\ selection /= Null
        /\ selection' = FixedRect(x, y)
  /\ pc' = "input"
  /\ lastEvent' = "onMouseMove"
  /\ UNCHANGED <<imageVars, viewVars, cropPixels, pixelRect, resizeVars, printVars, sendVars, dragVars,
                 outputVars, transformOrigin, tasks, fileSelections>>

\* variant of maybeClearTinySelection: only an empty selection is cleared
maybeClearEmptySelection ==
  selection' = IF /\ cropMode = "free"
                  /\ selection /= Null
                  /\ (IsZero(selection.width) \/ IsZero(selection.height))
                 THEN Null ELSE selection

\* maybeClearTinySelection() in free mode, else the selection stays
maybeClearTinySelection ==
  selection' = IF /\ cropMode = "free"
                  /\ selection /= Null
                  /\ (Lt(selection.width, FromInt(MinSelection))
                        \/ Lt(selection.height, FromInt(MinSelection)))
                 THEN Null ELSE selection

onMouseUp ==
  /\ pc = "resolved"
  /\ containerSize /= Null
  /\ selecting' = FALSE
  /\ dragging' = FALSE
  /\ maybeClearTinySelection
  /\ refreshToSendPreview
  /\ pc' = IF selection' = selection THEN pc ELSE "input"
  /\ lastEvent' = "onMouseUp"
  /\ UNCHANGED <<imageVars, viewVars, cropPixels, pixelRect, resizeVars, printVars, sendVars, cropMode,
                 startPoint, fixedWidth, fixedHeight, transformOrigin, fileSelections>>

onMouseLeave ==
  /\ pc = "resolved"
  /\ containerSize /= Null
  /\ selecting' = FALSE
  /\ dragging' = FALSE
  /\ maybeClearTinySelection
  /\ pc' = IF selection' = selection THEN pc ELSE "input"
  /\ lastEvent' = "onMouseLeave"
  /\ UNCHANGED <<imageVars, viewVars, cropPixels, pixelRect, resizeVars, printVars, sendVars, cropMode,
                 startPoint, fixedWidth, fixedHeight, outputVars, transformOrigin,
                 tasks, fileSelections>>

\* the crop mode radio that is not checked is chosen.  The effect on
\* [fixedWidth, fixedHeight, cropMode, naturalSize] centres the new fixed
\* rectangle on its own centre and leaves it where it is.
onCropModeChange(newMode) ==
  /\ pc = "resolved"
  /\ imageSrc /= Null
  /\ newMode /= cropMode
  /\ cropMode' = newMode
  /\ selection' =
       IF newMode = "fixed"
         THEN Rect(FMax(F0, Div(Sub(FromInt(containerSize.width), FixedSize[1]), F2)),
                   FMax(F0, Div(Sub(FromInt(containerSize.height), FixedSize[2]), F2)),
                   FixedSize[1], FixedSize[2])
         ELSE Null
  /\ refreshToSendPreview
  /\ pc' = "input"
  /\ lastEvent' = "onCropModeChange"
  /\ UNCHANGED <<imageVars, viewVars, cropPixels, pixelRect, resizeVars, printVars, sendVars, selecting,
                 dragging, startPoint, fixedWidth, fixedHeight, transformOrigin,
                 fileSelections>>

\* the clear-selection button, shown while the selection is at least 8 x 8
onClearSelection ==
  /\ pc = "resolved"
  /\ imageSrc /= Null
  /\ isValidSelection(selection)
  /\ selection' = Null
  /\ refreshToSendPreview
  /\ pc' = "input"
  /\ lastEvent' = "onClearSelection"
  /\ UNCHANGED <<imageVars, viewVars, cropPixels, pixelRect, resizeVars, printVars, sendVars, dragVars,
                 transformOrigin, fileSelections>>

\* the wheel listener of the page, with the render that follows left to
\* Resolve
onWheelEvent(pointerX, pointerY, deltaY) ==
  /\ pc = "resolved"
  /\ containerSize /= Null
  /\ wheelEvents < MaxPageWheelEvents
  /\ originX' = pointerX
  /\ originY' = pointerY
  /\ zoom' = WheelZoom(zoom, deltaY)
  /\ wheelEvents' = wheelEvents + 1
  /\ pc' = "input"
  /\ lastEvent' = "onWheel"
  /\ UNCHANGED <<imageVars, selection, cropPixels, pixelRect, resizeVars, printVars, sendVars, dragVars,
                 outputVars, transformOrigin, tasks, fileSelections>>

\* variant of onResetZoom: the button zooms out to the lower limit
onResetZoomOut ==
  /\ pc = "resolved"
  /\ imageSrc /= Null
  /\ zoom' = MinZoom
  /\ originX' = Centre(containerSize)[1]
  /\ originY' = Centre(containerSize)[2]
  /\ pc' = "input"
  /\ lastEvent' = "onResetZoom"
  /\ UNCHANGED <<imageVars, wheelEvents, selection, cropPixels, pixelRect, resizeVars, printVars, sendVars,
                 dragVars, outputVars, transformOrigin, tasks, fileSelections>>

\* the Reset zoom button, shown with the image
onResetZoom ==
  /\ pc = "resolved"
  /\ imageSrc /= Null
  /\ zoom' = 1000
  /\ originX' = Centre(containerSize)[1]
  /\ originY' = Centre(containerSize)[2]
  /\ pc' = "input"
  /\ lastEvent' = "onResetZoom"
  /\ UNCHANGED <<imageVars, wheelEvents, selection, cropPixels, pixelRect, resizeVars, printVars, sendVars,
                 dragVars, outputVars, transformOrigin, tasks, fileSelections>>

\* The print page's onProcess up to its first await; its button is disabled
\* while processingForPrint is true.  input tells whether the format
\* dimensions and the DPI are valid ("ok") or which of them is not ("dims",
\* "dpi").  The handler awaits the PDF conversion (if the file is a PDF),
\* getCroppedBlob (if the resolver gave a crop) and fetch(imageSrc) (if there
\* is no file) before it calls setProcessingForPrint(true) and posts; with
\* none of them it posts in the same step.  The task keeps what the call's
\* closure holds, imageSrc (src) and the crop, and is told from the tasks
\* of other calls by the number of handler runs before it (call).
onProcessForPrint(input) ==
  /\ pc = "resolved"
  /\ ~processingForPrint
  /\ processedUrl' = Null
  /\ processedType' = Null
  /\ lastEvent' = "onProcess"
  /\ IF imageSrc = Null /\ file = Null
       THEN /\ error' = [message |-> "Please select an image first."]
            /\ UNCHANGED <<tasks, processingForPrint>>
       ELSE IF input = "dims"
       THEN /\ error' = [message |-> "Please select valid dimensions."]
            /\ UNCHANGED <<tasks, processingForPrint>>
       ELSE IF input = "dpi"
       THEN /\ error' = [message |-> "Please enter a valid DPI."]
            /\ UNCHANGED <<tasks, processingForPrint>>
       ELSE /\ error' = Null
            /\ tasks' = tasks \cup
                 {[handler |-> "onProcess", call |-> events, of |-> file,
                   src |-> imageSrc, crop |-> CropIfSelected,
                   at |-> IF file /= Null /\ file.type = "application/pdf" THEN "pdf_to_image"
                          ELSE IF CropIfSelected /= Null THEN "getCroppedBlob"
                          ELSE IF file = Null THEN "fetchImage"
                          ELSE "fetch",
                   started |-> fileSelections]}
            /\ processingForPrint' =
                 (/\ file /= Null
                  /\ file.type /= "application/pdf"
                  /\ CropIfSelected = Null)
  /\ UNCHANGED <<imageVars, viewVars, selection, cropPixels, pixelRect, resizeVars, request, pc,
                 dragVars, toSendPreviewUrl, transformOrigin, fileSelections,
                 previewUrl, result, processing>>

\* variant of processContinued: a rejected conversion or crop sets no error
processContinuedSilent(t, ok) ==
  /\ pc = "resolved"
  /\ t \in tasks
  /\ t.handler = "onProcess"
  /\ t.at \in {"pdf_to_image", "getCroppedBlob", "fetchImage"}
  /\ lastEvent' = lastEvent
  /\ IF ~ok
       THEN /\ tasks' = tasks \ {t}
            /\ error' = error
            /\ UNCHANGED <<processingForPrint, imageSrc, containerSize, zoom, originX,
                           originY, pc>>
       ELSE /\ error' = error
            /\ IF t.at = "pdf_to_image" /\ t.crop /= Null
                 THEN /\ tasks' = (tasks \ {t}) \cup
                           {[t EXCEPT !.of = [name |-> "converted.png", type |-> "image/png"],
                                      !.at = "getCroppedBlob"]}
                      /\ processingForPrint' = processingForPrint
                 ELSE /\ tasks' = (tasks \ {t}) \cup
                           {[t EXCEPT !.of = IF t.at = "pdf_to_image"
                                                THEN [name |-> "converted.png", type |-> "image/png"]
                                              ELSE IF t.at = "getCroppedBlob"
                                                THEN CropFile(t.crop)
                                              ELSE File,
                                      !.at = "fetch"]}
                      /\ processingForPrint' = TRUE
            /\ IF t.at = "pdf_to_image" /\ t.src = Null
                 THEN /\ imageSrc' = [url |-> "converted.png"]
                      /\ containerSize' = Layout(imageSrc', naturalSize)
                      /\ zoom' = IF imageSrc' = imageSrc THEN zoom ELSE 1000
                      /\ originX' = IF imageSrc' = imageSrc THEN originX
                                    ELSE Centre(containerSize')[1]
                      /\ originY' = IF imageSrc' = imageSrc THEN originY
                                    ELSE Centre(containerSize')[2]
                      /\ pc' = "input"
                 ELSE UNCHANGED <<imageSrc, containerSize, zoom, originX, originY, pc>>
  /\ UNCHANGED <<file, naturalSize, wheelEvents, selection, cropPixels, pixelRect, resizeVars, request,
                 dragVars, outputVars, transformOrigin, fileSelections,
                 previewUrl, result, processing>>

\* onProcess resumes after one of the awaits that come before its POST,
\* which resolved (ok) or rejected.  A rejected PDF conversion or crop sets
\* the error and returns; a rejected fetch(imageSrc) is not caught.  After
\* the last of these awaits the handler calls setProcessingForPrint(true)
\* and posts.  A converted PDF becomes the image source if the call started
\* without one, and the effect on [imageSrc] runs.
processContinued(t, ok) ==
  /\ pc = "resolved"
  /\ t \in tasks
  /\ t.handler = "onProcess"
  /\ t.at \in {"pdf_to_image", "getCroppedBlob", "fetchImage"}
  /\ lastEvent' = lastEvent
  /\ IF ~ok
       THEN /\ tasks' = tasks \ {t}
            /\ error' = IF t.at = "pdf_to_image" THEN [message |-> "PDF conversion failed"]
                        ELSE IF t.at = "getCroppedBlob" THEN [message |-> "Crop failed"]
                        ELSE error
            /\ UNCHANGED <<processingForPrint, imageSrc, containerSize, zoom, originX,
                           originY, pc>>
       ELSE /\ error' = error
            /\ IF t.at = "pdf_to_image" /\ t.crop /= Null
                 THEN /\ tasks' = (tasks \ {t}) \cup
                           {[t EXCEPT !.of = [name |-> "converted.png", type |-> "image/png"],
                                      !.at = "getCroppedBlob"]}
                      /\ processingForPrint' = processingForPrint
                 ELSE /\ tasks' = (tasks \ {t}) \cup
                           {[t EXCEPT !.of = IF t.at = "pdf_to_image"
                                                THEN [name |-> "converted.png", type |-> "image/png"]
                                              ELSE IF t.at = "getCroppedBlob"
                                                THEN CropFile(t.crop)
                                              ELSE File,
                                      !.at = "fetch"]}
                      /\ processingForPrint' = TRUE
            /\ IF t.at = "pdf_to_image" /\ t.src = Null
                 THEN /\ imageSrc' = [url |-> "converted.png"]
                      /\ containerSize' = Layout(imageSrc', naturalSize)
                      /\ zoom' = IF imageSrc' = imageSrc THEN zoom ELSE 1000
                      /\ originX' = IF imageSrc' = imageSrc THEN originX
                                    ELSE Centre(containerSize')[1]
                      /\ originY' = IF imageSrc' = imageSrc THEN originY
                                    ELSE Centre(containerSize')[2]
                      /\ pc' = "input"
                 ELSE UNCHANGED <<imageSrc, containerSize, zoom, originX, originY, pc>>
  /\ UNCHANGED <<file, naturalSize, wheelEvents, selection, cropPixels, pixelRect, resizeVars, request,
                 dragVars, outputVars, transformOrigin, fileSelections,
                 previewUrl, result, processing>>

\* variant of processResponded: the answer also drops the image's natural size
processRespondedUnsized(t, ok) ==
  /\ pc = "resolved"
  /\ t \in tasks
  /\ t.handler = "onProcess"
  /\ t.at = "fetch"
  /\ tasks' = tasks \ {t}
  /\ processedUrl' = IF ok THEN [of |-> t.of, started |-> t.started] ELSE processedUrl
  /\ processedType' = IF ok THEN [type |-> "application/pdf"] ELSE processedType
  /\ error' = IF ok THEN error ELSE [message |-> "Processing error"]
  /\ processingForPrint' = FALSE
  /\ lastEvent' = lastEvent
  /\ naturalSize' = Null
  /\ UNCHANGED <<file, imageSrc, containerSize, viewVars, selection, cropPixels,
                 pixelRect, resizeVars, request, pc, dragVars, toSendPreviewUrl, transformOrigin,
                 fileSelections, previewUrl, result, processing>>

\* the backend answers /process_for_print: res.ok or not; finally
\* setProcessingForPrint(false)
processResponded(t, ok) ==
  /\ pc = "resolved"
  /\ t \in tasks
  /\ t.handler = "onProcess"
  /\ t.at = "fetch"
  /\ tasks' = tasks \ {t}
  /\ processedUrl' = IF ok THEN [of |-> t.of, started |-> t.started] ELSE processedUrl
  /\ processedType' = IF ok THEN [type |-> "application/pdf"] ELSE processedType
  /\ error' = IF ok THEN error ELSE [message |-> "Processing error"]
  /\ processingForPrint' = FALSE
  /\ lastEvent' = lastEvent
  /\ UNCHANGED <<imageVars, viewVars, selection, cropPixels, pixelRect, resizeVars, request, pc,
                 dragVars, toSendPreviewUrl, transformOrigin, fileSelections,
                 previewUrl, result, processing>>

\* The page before a file is selected; after the first file, File, has
\* been selected and has loaded; and after a selection has then been dragged
\* from (4, 4) to (16, 12) and its preview has been made.  The origin is
\* where the effect on [imageSrc] put it when File's data URL was set: the
\* centre of the container as laid out before naturalSize was known.
InitPage ==
  /\ \/ /\ file = Null /\ imageSrc = Null /\ naturalSize = Null
        /\ fileSelections = 0 /\ lastEvent = "none"
        /\ selection = Null /\ startPoint = Null /\ toSendPreviewUrl = Null
     \/ /\ file = File /\ imageSrc = [url |-> File.name] /\ naturalSize = createImage(File)
        /\ fileSelections = 1
        /\ \/ /\ lastEvent = "onFileChange"
              /\ selection = Null /\ startPoint = Null /\ toSendPreviewUrl = Null
           \/ /\ lastEvent = "onMouseUp"
              /\ selection = SelectionAt(4, 4, 12, 8)
              /\ startPoint = [x |-> FromInt(4), y |-> FromInt(4)]
              /\ toSendPreviewUrl = [crop |-> Rect(1, 1, 3, 2)]
  /\ containerSize = Layout(imageSrc, naturalSize)
  /\ zoom = 1000
  /\ originX = IF imageSrc = Null THEN F0 ELSE Centre(Layout(imageSrc, Null))[1]
  /\ originY = IF imageSrc = Null THEN F0 ELSE Centre(Layout(imageSrc, Null))[2]
  /\ cropPixels = Null
  /\ pixelRect = Null
  /\ error = Null
  /\ request = Null
  /\ wheelEvents = 0
  /\ pc = "input"
  /\ cropMode = "free" /\ selecting = FALSE /\ dragging = FALSE
  /\ fixedWidth = 100 /\ fixedHeight = 100
  /\ processedUrl = Null /\ processedType = Null
  /\ transformOrigin = [keyword |-> "center center"]
  /\ tasks = {}
  /\ events = 0
  /\ processingForPrint = FALSE /\ previewUrl = Null /\ result = Null
  /\ processing = FALSE
  /\ resizeWidth = Null /\ resizeHeight = Null /\ resizeDpi = 300
  /\ globalUnit = "mm" /\ quality = Null

MaxPageEvents == 3
MaxFileEvents == 6

\* a handler runs, or resumes after an await, within the number of runs
\* explored
Budget(max) == events < max /\ events' = events + 1

NextPage ==
  \/ Resolve
  \/ Budget(MaxPageEvents) /\ onWheelEvent(FromInt(4), FromInt(4), -1)
  \/ \E f \in {OtherFile, Null} : Budget(MaxPageEvents) /\ onFileChange(f)
  \/ \E t \in tasks, ok \in BOOLEAN : Budget(MaxPageEvents) /\ fileLoaded(t, ok)
  \/ Budget(MaxPageEvents) /\ onResetZoom
  \/ Budget(MaxPageEvents) /\ onMouseDown(FromInt(4), FromInt(4))
  \/ \E p \in {<<8, 8>>, <<16, 12>>} :
       Budget(MaxPageEvents) /\ onMouseMove(FromInt(p[1]), FromInt(p[2]))
  \/ Budget(MaxPageEvents) /\ onMouseUp
  \/ Budget(MaxPageEvents) /\ onMouseLeave
  \/ \E newMode \in {"free", "fixed"} : Budget(MaxPageEvents) /\ onCropModeChange(newMode)
  \/ Budget(MaxPageEvents) /\ onClearSelection
  \/ \E t \in tasks : Budget(MaxPageEvents) /\ previewReady(t)
  \/ \E input \in {"ok", "dims"} : Budget(MaxPageEvents) /\ onProcessForPrint(input)
  \/ \E t \in tasks, ok \in BOOLEAN : Budget(MaxPageEvents) /\ processContinued(t, ok)
  \/ \E t \in tasks, ok \in BOOLEAN : Budget(MaxPageEvents) /\ processResponded(t, ok)
  \/ onSubmit(TRUE)

SpecPage == InitPage /\ [][NextPage]_vars

\* ---- file selections and processing, with their awaits interleaved ----
NextFiles ==
  \/ Resolve
  \/ \E f \in {File, OtherFile} : Budget(MaxFileEvents) /\ onFileChange(f)
  \/ \E t \in tasks : Budget(MaxFileEvents) /\ fileLoaded(t, TRUE)
  \/ Budget(MaxFileEvents) /\ onProcessForPrint("ok")
  \/ \E t \in tasks, ok \in BOOLEAN : Budget(MaxFileEvents) /\ processResponded(t, ok)

SpecFiles == InitLegacy /\ [][NextFiles]_vars

C13_OriginAtPointerAndCentre ==
  [][/\ wheelEvents' = wheelEvents + 1 =>
          originX' = FromInt(4) /\ originY' = FromInt(4)
     /\ (/\ \E t \in tasks : t.handler = "onFileChange" /\ t.at = "decode" /\ t \notin tasks'
         /\ naturalSize' /= Null)
          => /\ originX' = Centre(containerSize')[1]
             /\ originY' = Centre(containerSize')[2]]_vars

\* C14 as stated: the selection is null after the step in which a new image
\* finishes loading, after every switch of the crop mode, and after every
\* mouse-up on a selection narrower or lower than 8
C14_SelectionCleared ==
  [][/\ (\E t \in tasks : t.handler = "onFileChange" /\ t.at = "decode" /\ t \notin tasks')
          => selection' = Null
     /\ cropMode' /= cropMode => selection' = Null
     /\ (/\ lastEvent' = "onMouseUp" /\ events' = events + 1 /\ tasks \subseteq tasks'
         /\ selection /= Null
         /\ (Lt(selection.width, FromInt(8)) \/ Lt(selection.height, FromInt(8))))
          => selection' = Null]_vars

\* C14: the selection is null after the step in which a new image finishes
\* loading, after every switch of the crop mode to free, and after every
\* mouse-up in free mode on a selection narrower or lower than 8
C14_SelectionClearedInFreeMode ==
  [][/\ (\E t \in tasks : t.handler = "onFileChange" /\ t.at = "decode" /\ t \notin tasks')
          => selection' = Null
     /\ (cropMode' /= cropMode /\ cropMode' = "free") => selection' = Null
     /\ (/\ lastEvent' = "onMouseUp" /\ events' = events + 1 /\ tasks \subseteq tasks'
         /\ cropMode = "free"
         /\ selection /= Null
         /\ (Lt(selection.width, FromInt(8)) \/ Lt(selection.height, FromInt(8))))
          => selection' = Null]_vars

\* a drag from (4, 4) to (8, 8) has ended and its 4 x 4 selection is gone
C14_Witness ==
  /\ lastEvent = "onMouseUp"
  /\ events = 3
  /\ cropMode = "free"
  /\ startPoint /= Null
  /\ selection = Null
  /\ toSendPreviewUrl = Null

\* C15: the image point displayed at the zoom origin does not depend on the
\* zoom: the normalised coordinate of the container point (originX, originY),
\* (origin - imgLeft) / dispW and (origin - imgTop) / dispH, is at every zoom
\* the number it is at zoom 1
C15_PivotIndependentOfZoom ==
  pc = "resolved" =>
    LET cw == FromInt(containerSize.width)
        ch == FromInt(containerSize.height)
        iw == FromInt(naturalSize.width)
        ih == FromInt(naturalSize.height)
        baseScale == BaseScale(cw, ch, iw, ih)
        bw == Mul(iw, baseScale)
        bh == Mul(ih, baseScale)
        z == ZoomNumber(zoom)
        normX == Div(Sub(originX, ImgStart(originX, BaseOffset(cw, bw), z)), Mul(bw, z))
        normY == Div(Sub(originY, ImgStart(originY, BaseOffset(ch, bh), z)), Mul(bh, z))
        normX1 == Div(Sub(originX, ImgStart(originX, BaseOffset(cw, bw), F1)), Mul(bw, F1))
        normY1 == Div(Sub(originY, ImgStart(originY, BaseOffset(ch, bh), F1)), Mul(bh, F1))
    IN /\ ~Lt(normX, normX1) /\ ~Lt(normX1, normX)
       /\ ~Lt(normY, normY1) /\ ~Lt(normY1, normY)

\* the crop of the legacy page: the selection scaled by natural size over
\* displayed (container) size, with no letterbox offset and no zoom
legacyCropPixels(sel, c, n) ==
  IF ~isValidSelection(sel) \/ c = Null \/ n = Null THEN Null
  ELSE Rect(PixelOf(0, sel.x, Div(FromInt(n.width), FromInt(c.width))),
            PixelOf(0, sel.y, Div(FromInt(n.height), FromInt(c.height))),
            PixelOf(1, sel.width, Div(FromInt(n.width), FromInt(c.width))),
            PixelOf(1, sel.height, Div(FromInt(n.height), FromInt(c.height))))

\* C16: at zoom 1, in a container of exactly the image's aspect ratio, the
\* legacy crop of a selection of at least 8 x 8 that lies inside the
\* container is the rectangle computeCropPixelsFromSelection returns
C16_LegacyCropAgrees ==
  (/\ pc = "resolved"
   /\ zoom = 1000
   /\ isValidSelection(selection)
   /\ containerSize.width * naturalSize.height = containerSize.height * naturalSize.width
   /\ ~Lt(FromInt(containerSize.width), Add(selection.x, selection.width))
   /\ ~Lt(FromInt(containerSize.height), Add(selection.y, selection.height)))
    => legacyCropPixels(selection, containerSize, naturalSize) = cropPixels

\* C17: naturalSize changes only in a step of the file input's handler: the
\* step that takes a new input value sets it to null, and the step that
\* ends the handler's load sets it to the loaded image's intrinsic size or
\* to null; wheel, mouse, crop mode, Reset zoom, clear selection, submit and
\* process steps leave it unchanged
C17_NaturalSizeWrittenByFileInput ==
  [][naturalSize' /= naturalSize =>
       \/ fileSelections' = fileSelections + 1 /\ naturalSize' = Null
       \/ \E t \in tasks :
            /\ t.handler = "onFileChange"
            /\ t \notin tasks'
            /\ naturalSize' \in {Null, createImage(t.of)}]_vars

\* other.png has been selected in the file input and has loaded: the
\* natural size is that image's intrinsic size, 6 x 3
C17_Witness ==
  /\ file = OtherFile
  /\ naturalSize = createImage(OtherFile)
  /\ naturalSize /= createImage(File)
  /\ events = 3

\* C18: once the click on the clear-selection button, or the switch of the
\* crop mode to free, has run to completion (it was the last input and no
\* asynchronous work is left), selection is null and toSendPreviewUrl is null
C18_NoPreviewOfClearedSelection ==
  (/\ \/ lastEvent = "onClearSelection"
      \/ lastEvent = "onCropModeChange" /\ cropMode = "free"
   /\ tasks = {})
    => selection = Null /\ toSendPreviewUrl = Null

\* C19: once every handler started before the latest file selection has
\* finished, processedUrl and processedType hold no result of a process
\* request that was started before that selection
C19_NoOutputOfPreviousFile ==
  (/\ fileSelections > 0
   /\ \A t \in tasks : t.started >= fileSelections)
    => /\ processedUrl /= Null => processedUrl.started >= fileSelections
       /\ processedUrl = Null => processedType = Null

\* C20: when two files have been selected one after the other and both
\* load handlers have finished, file, imageSrc and naturalSize belong to
\* the file selected last
C20_LastSelectedFileShown ==
  (/\ fileSelections = 2
   /\ \A t \in tasks : t.handler /= "onFileChange")
    => /\ imageSrc = [url |-> file.name]
       /\ naturalSize = createImage(file)

\* C21: whenever imageSrc and naturalSize are both non-null, naturalSize is
\* the intrinsic size of the image at imageSrc (also while a newly selected
\* file is still loading)
C21_NaturalSizeOfShownImage ==
  (imageSrc /= Null /\ naturalSize /= Null)
    => \E f \in {File, OtherFile} :
         imageSrc = [url |-> f.name] /\ naturalSize = createImage(f)

\* ---- the print page's process button, with every await of onProcess ----
MaxPrintEvents == 5

NextPrint ==
  \/ Resolve
  \/ Budget(MaxPrintEvents) /\ onFileChange(PdfFile)
  \/ \E t \in tasks, ok \in BOOLEAN : Budget(MaxPrintEvents) /\ fileLoaded(t, ok)
  \/ \E input \in {"ok", "dims", "dpi"} : Budget(MaxPrintEvents) /\ onProcessForPrint(input)
  \/ \E t \in tasks, ok \in BOOLEAN : Budget(MaxPrintEvents) /\ processContinued(t, ok)
  \/ \E t \in tasks, ok \in BOOLEAN : Budget(MaxPrintEvents) /\ processResponded(t, ok)

SpecPrint == InitPage /\ [][NextPrint]_vars

\* C22: at most one POST to /process_for_print issued by onProcess is in
\* flight at any time
C22_OnePostInFlight ==
  Cardinality({t \in tasks : t.handler = "onProcess" /\ t.at = "fetch"}) <= 1

MaxStudioEvents == 5

\* the file input's onChange with a file chosen: the preview is read
\* asynchronously (reader.onload)
handleFileChange(f) ==
  /\ f /= Null
  /\ file' = f
  /\ error' = Null
  /\ result' = Null
  /\ fileSelections' = fileSelections + 1
  /\ tasks' = tasks \cup {[handler |-> "handleFileChange", call |-> events, of |-> f,
                           at |-> "readAsDataURL", started |-> fileSelections + 1]}
  /\ lastEvent' = "handleFileChange"
  /\ UNCHANGED <<imageSrc, naturalSize, containerSize, viewVars, selection, cropPixels,
                 pixelRect, resizeVars, request, pc, dragVars, outputVars, transformOrigin,
                 processingForPrint, previewUrl, processing>>

\* reader.onload: setPreviewUrl(event.target.result); a failed read calls
\* no handler
readerLoaded(t, ok) ==
  /\ t \in tasks
  /\ t.handler = "handleFileChange"
  /\ tasks' = tasks \ {t}
  /\ previewUrl' = IF ok THEN [of |-> t.of] ELSE previewUrl
  /\ lastEvent' = lastEvent
  /\ UNCHANGED <<imageVars, viewVars, selection, cropPixels, pixelRect, resizeVars, sendVars, pc,
                 dragVars, outputVars, transformOrigin, fileSelections,
                 processingForPrint, result, processing>>

\* handleProcess up to its fetch of /api/process_for_print.  Its button is
\* disabled while processing is true (and while there is no file: the
\* handler's own test of file is reached only by a call without the button)
handleProcess ==
  /\ ~processing
  /\ lastEvent' = "handleProcess"
  /\ IF file = Null
       THEN /\ error' = [message |-> "Please upload a file first"]
            /\ UNCHANGED <<processing, result, tasks>>
       ELSE /\ processing' = TRUE
            /\ error' = Null
            /\ result' = Null
            /\ tasks' = tasks \cup {[handler |-> "handleProcess", call |-> events,
                                     of |-> file, at |-> "fetch",
                                     started |-> fileSelections]}
  /\ UNCHANGED <<imageVars, viewVars, selection, cropPixels, pixelRect, resizeVars, request, pc,
                 dragVars, outputVars, transformOrigin, fileSelections,
                 processingForPrint, previewUrl>>

\* variant of handleProcessResponded: processing is left true when the
\* request fails
handleProcessRespondedBusy(t, ok) ==
  /\ t \in tasks
  /\ t.handler = "handleProcess"
  /\ tasks' = tasks \ {t}
  /\ result' = IF ok THEN [of |-> t.of] ELSE result
  /\ error' = IF ok THEN error ELSE [message |-> "Processing failed"]
  /\ processing' = ~ok
  /\ lastEvent' = lastEvent
  /\ UNCHANGED <<imageVars, viewVars, selection, cropPixels, pixelRect, resizeVars, request, pc,
                 dragVars, outputVars, transformOrigin, fileSelections,
                 processingForPrint, previewUrl>>

\* the fetch of handleProcess is answered with response.ok (ok) or fails:
\* setResult(blob) or setError(message), and finally setProcessing(false)
handleProcessResponded(t, ok) ==
  /\ t \in tasks
  /\ t.handler = "handleProcess"
  /\ tasks' = tasks \ {t}
  /\ result' = IF ok THEN [of |-> t.of] ELSE result
  /\ error' = IF ok THEN error ELSE [message |-> "Processing failed"]
  /\ processing' = FALSE
  /\ lastEvent' = lastEvent
  /\ UNCHANGED <<imageVars, viewVars, selection, cropPixels, pixelRect, resizeVars, request, pc,
                 dragVars, outputVars, transformOrigin, fileSelections,
                 processingForPrint, previewUrl>>

\* the 'Change file' button, shown with the preview
handleReset ==
  /\ previewUrl /= Null
  /\ file' = Null
  /\ previewUrl' = Null
  /\ result' = Null
  /\ error' = Null
  /\ lastEvent' = "handleReset"
  /\ UNCHANGED <<imageSrc, naturalSize, containerSize, viewVars, selection, cropPixels,
                 pixelRect, resizeVars, request, pc, dragVars, outputVars, transformOrigin, tasks,
                 fileSelections, processingForPrint, processing>>

NextStudio ==
  \/ \E f \in {File, OtherFile} : Budget(MaxStudioEvents) /\ handleFileChange(f)
  \/ \E t \in tasks, ok \in BOOLEAN : Budget(MaxStudioEvents) /\ readerLoaded(t, ok)
  \/ Budget(MaxStudioEvents) /\ handleProcess
  \/ \E t \in tasks, ok \in BOOLEAN : Budget(MaxStudioEvents) /\ handleProcessResponded(t, ok)
  \/ Budget(MaxStudioEvents) /\ handleReset

SpecStudio == InitLegacy /\ [][NextStudio]_vars

\* C24: the step that ends a call of handleProcess started with a file
\* leaves processing false and either result non-null with error empty (the
\* response was ok) or error non-empty with result null; a call with no
\* file sets the error 'Please upload a file first' and sends no request
C24_ProcessEndsInOneOutcome ==
  [][/\ \A t \in tasks :
          (t.handler = "handleProcess" /\ t \notin tasks')
            => /\ ~processing'
               /\ \/ result' = [of |-> t.of] /\ error' = Null
                  \/ result' = Null /\ error' /= Null
     /\ (file = Null /\ lastEvent' = "handleProcess" /\ events' = events + 1
         /\ tasks \subseteq tasks')
          => /\ error' = [message |-> "Please upload a file first"]
             /\ tasks' = tasks
             /\ ~processing']_vars

\* a call of handleProcess has failed: its error is shown, there is no
\* result and the button is enabled again
C24_Witness ==
  /\ lastEvent = "handleProcess"
  /\ file /= Null
  /\ error = [message |-> "Processing failed"]
  /\ result = Null
  /\ ~processing
  /\ tasks = {}

\* C25: a non-null result was produced from the currently selected file,
\* and a non-empty previewUrl is the preview of the currently selected file
C25_ResultAndPreviewOfCurrentFile ==
  /\ result /= Null => result.of = file
  /\ previewUrl /= Null => previewUrl.of = file

\* ---- the DPI quality banner of the print panel ----
\* parseFloat of a size field: NaN for the empty string, else the double
\* nearest to the decimal
parseFloat(s) == IF s = Null THEN NaN ELSE Div(FromInt(s.tenths), FromInt(10))

\* the literals 25.4, 0.95 and 0.8 as doubles
MmPerInch == Div(FromInt(254), FromInt(10))
LowShare == Div(FromInt(95), FromInt(100))
VeryLowShare == Div(FromInt(8), FromInt(10))

\* Math.ceil and Math.round of a finite value, as integers
MathCeil(x) == 0 - Floor(Neg(x))
MathRound(x) == Floor(Add(x, Div(F1, F2)))

\* the quality record of an effective DPI on a print size in inches
QualityOf(effectiveDpi, printWidthInch, printHeightInch, targetDpi) ==
  [effectiveDpi |-> MathRound(effectiveDpi),
   isLowQuality |-> Lt(effectiveDpi, Mul(targetDpi, LowShare)),
   isVeryLowQuality |-> Lt(effectiveDpi, Mul(targetDpi, VeryLowShare)),
   recommendedWidth |-> MathCeil(Mul(printWidthInch, targetDpi)),
   recommendedHeight |-> MathCeil(Mul(printHeightInch, targetDpi))]

QualityAtInches(imageWidth, imageHeight, printWidthInch, printHeightInch, targetDpi) ==
  QualityOf(FMin(Div(imageWidth, printWidthInch), Div(imageHeight, printHeightInch)),
            printWidthInch, printHeightInch, targetDpi)

calculateDpiQuality(imageWidth, imageHeight, printWidthMm, printHeightMm, targetDpi) ==
  QualityAtInches(imageWidth, imageHeight,
                  Div(printWidthMm, MmPerInch), Div(printHeightMm, MmPerInch), targetDpi)

\* the size the banner rates: the crop when a valid selection resolves,
\* else the whole image; cropPixels holds what the resolver returns on the
\* current state
CurrentSize ==
  IF isValidSelection(selection) /\ cropPixels /= Null
  THEN Size(cropPixels.width, cropPixels.height)
  ELSE naturalSize

\* a print size in mm
PrintMm(x) == IF globalUnit = "mm" THEN x ELSE Mul(x, MmPerInch)

\* the banner of a quality: red, else yellow, else green
BannerOf(q) ==
  [quality |-> q,
   banner |-> IF q.isVeryLowQuality THEN "red"
              ELSE IF q.isLowQuality THEN "yellow"
              ELSE "green"]

BannerAt(size, w, h, d) ==
  IF ~(Lt(F0, w) /\ Lt(F0, h) /\ Lt(F0, d)) THEN Null
  ELSE BannerOf(calculateDpiQuality(FromInt(size.width), FromInt(size.height),
                                    PrintMm(w), PrintMm(h), d))

\* what a render of the panel shows for the current fields: no banner
\* without an image or with an empty field or one that is not a positive
\* number, else the quality with the banner's colour
DpiQualityBanner ==
  IF imageSrc = Null \/ naturalSize = Null \/ resizeWidth = Null \/ resizeHeight = Null
  THEN Null
  ELSE BannerAt(CurrentSize, parseFloat(resizeWidth), parseFloat(resizeHeight),
                FromInt(resizeDpi))

\* the fields the banner is rendered on: image sizes in pixels, with no
\* selection or one over the whole container, print sizes in tenths of the
\* unit, target DPIs
InitDpi ==
  /\ file = File
  /\ imageSrc = Image
  /\ naturalSize \in {Size(w, h) : w \in {100, 285, 300, 384}, h \in {200, 3000}}
  /\ containerSize = Size(40, 40)
  /\ zoom = 1000
  /\ originX = FromInt(20)
  /\ originY = FromInt(20)
  /\ selection \in {Null, SelectionAt(0, 0, 40, 40)}
  /\ cropPixels = Null
  /\ pixelRect = Null
  /\ error = Null
  /\ request = Null
  /\ wheelEvents = 0
  /\ pc = "input"
  /\ cropMode = "free" /\ selecting = FALSE /\ dragging = FALSE
  /\ startPoint = Null
  /\ fixedWidth = 100 /\ fixedHeight = 100
  /\ toSendPreviewUrl = Null /\ processedUrl = Null /\ processedType = Null
  /\ transformOrigin = [keyword |-> "center center"]
  /\ tasks = {}
  /\ fileSelections = 1
  /\ lastEvent = "none"
  /\ events = 0
  /\ processingForPrint = FALSE /\ previewUrl = Null /\ result = Null
  /\ processing = FALSE
  /\ resizeWidth \in {[tenths |-> t] : t \in {10, 50, 254, 762, 1270}}
  /\ resizeHeight \in {[tenths |-> t] : t \in {254, 1000}}
  /\ resizeDpi \in {96, 100, 300}
  /\ globalUnit \in {"mm", "inch"}
  /\ quality = Null

\* one render of the print panel, after the resolver has run on the state
RenderBanner ==
  /\ pc = "resolved"
  /\ quality' = DpiQualityBanner
  /\ pc' = "rendered"
  /\ UNCHANGED <<imageVars, viewVars, selection, cropPixels, pixelRect, resizeWidth,
                 resizeHeight, resizeDpi, globalUnit, printVars, sendVars, pageVars,
                 lastEvent>>

NextDpi == Resolve \/ RenderBanner

SpecDpi == InitDpi /\ [][NextDpi]_vars

\* the share of the target DPI in exact arithmetic: the effective DPI of a
\* w pixel side printed on tenths/10 units is w * k / tenths, k = 254 for
\* mm and 10 for inch; it is under p percent of the target when
\* 100 * w * k < p * resizeDpi * tenths on one of the two sides
UnderPercent(p) ==
  LET k == IF globalUnit = "mm" THEN 254 ELSE 10
  IN \/ 100 * CurrentSize.width * k < p * resizeDpi * resizeWidth.tenths
     \/ 100 * CurrentSize.height * k < p * resizeDpi * resizeHeight.tenths

\* C26: on positive image size, print size and target DPI, a very low
\* quality is also a low quality, and the banner is red when the effective
\* DPI is under 80% of the target, yellow from 80% up to but excluding 95%
\* and green from 95% on
C26_BannerByShareOfTarget ==
  (pc = "rendered" /\ quality /= Null) =>
    /\ quality.quality.isVeryLowQuality => quality.quality.isLowQuality
    /\ quality.banner = "red" <=> UnderPercent(80)
    /\ quality.banner = "yellow" <=> (~UnderPercent(80) /\ UnderPercent(95))
    /\ quality.banner = "green" <=> ~UnderPercent(95)

====
